---------------------------- MODULE Spec2Model ----------------------------
(***************************************************************************)
(* A model of scripts/utils/find_longest_functions.py: the line-oriented   *)
(* function scanner (find_functions) and the report driver (main).         *)
(*                                                                         *)
(* Text is modelled as sequences of one-character strings.  A file is a    *)
(* sequence of raw lines (as readlines() returns them, with indentation    *)
(* and the trailing newline); to keep states small a file stores each line *)
(* as its index in the table Text.                                         *)
(***************************************************************************)
EXTENDS Integers, Sequences, FiniteSets, TLC

(***************************************************************************)
(* Bounds of the model.                                                    *)
(***************************************************************************)
\* longest file made of arbitrary lines
MaxLines == 4
\* largest number of .c files in a scanned tree
MaxFiles == 2

(***************************************************************************)
(* Program constants.                                                      *)
(***************************************************************************)
\* long_funcs = [f for f in all_functions if f[2] > 150]
Threshold == 150
\* all_functions[:5]
TopN == 5

(***************************************************************************)
(* Character classes of Python's str.strip() and of the re module.         *)
(***************************************************************************)
Whitespace == {" ", "\t", "\n"}

WordChars ==
    {"a", "b", "c", "d", "e", "f", "g", "h", "i", "j", "k", "l", "m",
     "n", "o", "p", "q", "r", "s", "t", "u", "v", "w", "x", "y", "z",
     "0", "1", "2", "3", "4", "5", "6", "7", "8", "9", "_"}

Alphabet ==
    WordChars \cup Whitespace \cup {"(", ")", "{", "}", "*", ";", "/", "#"}

(***************************************************************************)
(* The lines files are made of.                                            *)
(***************************************************************************)
SigBrace ==
    <<"i", "n", "t", " ", "f", "(", ")", " ", "{", "\n">>
SigNoBrace ==
    <<"i", "n", "t", " ", "g", "(", ")", "\n">>
OpenBrace ==
    <<"{", "\n">>
CloseBrace ==
    <<"}", "\n">>
Statement ==
    <<" ", " ", "x", ";", "\n">>
Blank ==
    <<"\n">>
Comment ==
    <<"/", "/", " ", "}", "\n">>
Preproc ==
    <<"#", " ", "{", "\n">>
TypedefLine ==
    <<"t", "y", "p", "e", "d", "e", "f", " ", "t", "(", ")", "\n">>
StaticPtrSig ==
    <<"s", "t", "a", "t", "i", "c", " ", "i", "n", "t", " ", "*", "h",
      "(", ")", " ", "{", "\n">>
ElseLine ==
    <<" ", " ", "}", " ", "e", "l", "s", "e", " ", "{", "\n">>

\* the lines a file of arbitrary content draws from
ArbLines ==
    <<SigBrace, SigNoBrace, OpenBrace, CloseBrace, Statement, Blank,
      Comment, Preproc, TypedefLine>>

\* every line of the model; a file stores indices into this table
Text == ArbLines \o <<StaticPtrSig, ElseLine>>

ArbIds == 1..Len(ArbLines)

IdOf(line) == CHOOSE k \in 1..Len(Text) : Text[k] = line

(***************************************************************************)
(* str methods used by find_functions.                                     *)
(***************************************************************************)
\* s.strip(): drop leading and trailing whitespace
strip(s) ==
    LET keep == {k \in 1..Len(s) : s[k] \notin Whitespace}
    IN  IF keep = {} THEN <<>>
        ELSE LET lo == CHOOSE k \in keep : \A j \in keep : k <= j
                 hi == CHOOSE k \in keep : \A j \in keep : k >= j
             IN  SubSeq(s, lo, hi)

\* s.startswith(prefix)
startswith(s, prefix) ==
    /\ Len(s) >= Len(prefix)
    /\ SubSeq(s, 1, Len(prefix)) = prefix

\* s.count(ch) for a single character ch
count(s, ch) == Cardinality({k \in 1..Len(s) : s[k] = ch})

(***************************************************************************)
(* func_pattern = ^(static\s+)?(\w+\s+\*?)(\w+)\s*\([^)]*\)\s*\{?$         *)
(* matched the way a backtracking matcher explores it: every operator maps *)
(* the set of positions before a piece of the pattern to the set of        *)
(* positions after it (position p is "before character p").                *)
(***************************************************************************)
\* X+ : one or more characters of class cls
Plus(s, P, cls) ==
    {q \in 1..Len(s) + 1 :
        \E p \in P : p < q /\ \A k \in p..q - 1 : s[k] \in cls}

\* X* : zero or more characters of class cls
Star(s, P, cls) == P \cup Plus(s, P, cls)

\* a literal character
Lit(s, P, ch) == {p + 1 : p \in {q \in P : q <= Len(s) /\ s[q] = ch}}

\* an optional literal character
Opt(s, P, ch) == P \cup Lit(s, P, ch)

\* a literal word
Word(s, P, w) ==
    {p + Len(w) : p \in {q \in P : /\ q + Len(w) - 1 <= Len(s)
                                  /\ SubSeq(s, q, q + Len(w) - 1) = w}}

StaticKw == <<"s", "t", "a", "t", "i", "c">>
TypedefKw == <<"t", "y", "p", "e", "d", "e", "f">>

\* positions before group 3: after ^(static\s+)?(\w+\s+\*?)
BeforeName(s) ==
    LET p0 == {1}
        p1 == p0 \cup Plus(s, Word(s, p0, StaticKw), Whitespace)
        p2 == Plus(s, Plus(s, p1, WordChars), Whitespace)
    IN  Opt(s, p2, "*")

\* does \s*\([^)]*\)\s*\{?$ match from position r to the end of s
AfterName(s, r) ==
    LET a1 == Lit(s, Star(s, {r}, Whitespace), "(")
        a2 == Lit(s, Star(s, a1, Alphabet \ {")"}), ")")
        a3 == Opt(s, Star(s, a2, Whitespace), "{")
    IN  Len(s) + 1 \in a3

\* the spans <<first, last + 1>> group 3 can take in a match of s
func_pattern(s) ==
    {span \in BeforeName(s) \X (1..Len(s) + 1) :
        /\ span[2] \in Plus(s, {span[1]}, WordChars)
        /\ AfterName(s, span[2])}

\* variant: match.group(0), the whole match
group0(s) == s

\* match.group(3)
group3(s) ==
    LET span == CHOOSE sp \in func_pattern(s) : TRUE
    IN  SubSeq(s, span[1], span[2] - 1)

(***************************************************************************)
(* list.sort(key=lambda x: x[2], reverse=True).  CPython reverses the      *)
(* list, sorts it ascending with a stable insertion sort (the path taken   *)
(* for short lists), and reverses the result, which keeps equal keys in    *)
(* their original order.  A function record is the tuple                   *)
(* (func_name, func_start, func_length, file_path); Python's x[2] is the   *)
(* third component.                                                        *)
(***************************************************************************)
key(x) == x[3]

Reverse(s) == [k \in 1..Len(s) |-> s[Len(s) + 1 - k]]

\* insert x into the ascending list s, after every element whose key is
\* not greater (bisect right)
InsertRight(s, x) ==
    LET n == Cardinality({k \in 1..Len(s) : key(s[k]) <= key(x)})
    IN  SubSeq(s, 1, n) \o <<x>> \o SubSeq(s, n + 1, Len(s))

RECURSIVE StableAscending(_)
StableAscending(s) ==
    IF s = <<>> THEN <<>>
    ELSE InsertRight(StableAscending(SubSeq(s, 1, Len(s) - 1)), s[Len(s)])

\* variant: sort ascending, then reverse (equal keys end up reversed)
sort_reverse_unstable(s) == Reverse(StableAscending(s))

sort_reverse(s) == Reverse(StableAscending(Reverse(s)))

(***************************************************************************)
(* Pieces of main.                                                         *)
(***************************************************************************)
\* variant: enumerate(lines), counting from zero
EnumStartZero == 1 - 1

\* enumerate(lines, 1)
EnumStart == 1

\* variant: one line too many
FuncLengthPlusTwo(line_no, start) == line_no - start + 2

\* variant: the signature line is not counted
FuncLengthNoPlusOne(line_no, start) == line_no - start

\* func_length = i - func_start + 1
FuncLength(line_no, start) == line_no - start + 1

\* stripped.count('{') - stripped.count('}')
NetBraces(stripped) == count(stripped, "{") - count(stripped, "}")

\* not stripped or stripped.startswith('//') or stripped.startswith('#')
IsSkipped(stripped) ==
    \/ stripped = <<>>
    \/ startswith(stripped, <<"/", "/">>)
    \/ startswith(stripped, <<"#">>)

\* variant: the typedef test is missing
IsFuncStartAnyMatch(stripped) == func_pattern(stripped) # {}

\* match and not stripped.startswith('typedef')
IsFuncStart(stripped) ==
    /\ func_pattern(stripped) # {}
    /\ ~startswith(stripped, TypedefKw)

\* variant: a slice one element too long
TopSliceOneMore(fs) ==
    SubSeq(fs, 1, IF Len(fs) < TopN + 1 THEN Len(fs) ELSE TopN + 1)

\* all_functions[:5]
TopSlice(fs) ==
    SubSeq(fs, 1, IF Len(fs) < TopN THEN Len(fs) ELSE TopN)

\* variant: the threshold itself counts as too long
LongFuncsAtLeast(fs) ==
    LET keep(f) == f[3] >= Threshold
    IN  SelectSeq(fs, keep)

\* variant: only the listed entries are looked at
LongFuncsOfTop(fs) ==
    LET keep(f) == f[3] > Threshold
    IN  SelectSeq(TopSlice(fs), keep)

\* [f for f in all_functions if f[2] > 150]
LongFuncs(fs) ==
    LET keep(f) == f[3] > Threshold
    IN  SelectSeq(fs, keep)

\* what print() writes, one element per line of output
UsageLine == <<"Usage: find_longest_functions.py <src_directory>">>
HeaderLine == <<"Top 5 longest functions:">>
EntryLine(rank, f) == <<"entry", rank, f[1], f[4], f[2], f[3]>>
CountLine(n) == <<"Found", n, "functions exceeding 150 lines">>

\* the lines printed by the loop over enumerate(all_functions[:5], 1)
EntryLines(fs) ==
    [k \in 1..Len(TopSlice(fs)) |-> EntryLine(k, TopSlice(fs)[k])]

(***************************************************************************)
(* Files of the scanned tree.  A file is [readable, lines]; a file that    *)
(* open() or readlines() fails on has readable = FALSE.                    *)
(***************************************************************************)
Unreadable == [readable |-> FALSE, lines |-> <<>>]

FileWith(ls) == [readable |-> TRUE, lines |-> ls]

\* line k (1 < k < n) of a generated function body
BodyLine(k) ==
    CASE k % 5 = 0 -> IdOf(Statement)
      [] k % 5 = 1 -> IdOf(Blank)
      [] k % 5 = 2 -> IdOf(Comment)
      [] k % 5 = 3 -> IdOf(Preproc)
      [] OTHER     -> IdOf(ElseLine)

\* a function of n >= 2 lines: signature, body, closing brace
FuncText(sig, n) ==
    [k \in 1..n |-> IF k = 1 THEN IdOf(sig)
                    ELSE IF k = n THEN IdOf(CloseBrace)
                    ELSE BodyLine(k)]

\* a file holding one function per element of lens, a blank line after each
RECURSIVE FileOf(_)
FileOf(lens) ==
    IF lens = <<>> THEN <<>>
    ELSE FileOf(SubSeq(lens, 1, Len(lens) - 1))
         \o FuncText(IF Len(lens) % 2 = 1 THEN SigBrace ELSE StaticPtrSig,
                     lens[Len(lens)])
         \o <<IdOf(Blank)>>

\* the function lengths of the generated files: short functions with a
\* tie, one function of exactly the threshold, functions over the threshold
GenLens ==
    <<<<3, 2, 3>>,
      <<Threshold>>,
      <<Threshold + 1, Threshold + 2, Threshold + 1>>>>

GenFiles == [g \in 1..Len(GenLens) |-> FileWith(FileOf(GenLens[g]))]

\* a file that ends inside a function: one two-line function, then a
\* signature and a statement with no closing brace
OpenEndedFile ==
    FileWith(FileOf(<<2>>) \o <<IdOf(StaticPtrSig), IdOf(Statement)>>)

TreeFiles ==
    {Unreadable, OpenEndedFile} \cup {GenFiles[g] : g \in 1..Len(GenLens)}

SeqsUpTo(S, n) == UNION {[1..m -> S] : m \in 0..n}

(***************************************************************************)
(* State.                                                                  *)
(***************************************************************************)
VARIABLES
    argv,           \* sys.argv
    dir,            \* the files src_dir.rglob('*.c') yields, in that order
    pc,             \* where main is
    c_file,         \* number of files taken from the rglob iterator; the
                    \* current file's path is its position in dir
    opened,         \* the paths find_functions has been called on, in order
    consumed,       \* number of lines the for loop has taken from lines
    i,              \* loop variable of find_functions
    in_function, func_start, func_name, brace_count,
    functions,      \* result list of the running find_functions call
    all_functions,
    stdout,         \* lines printed so far
    exit_status     \* argument of sys.exit, -1 while the process runs

scanner == <<in_function, func_start, func_name, brace_count, functions>>

vars == <<argv, dir, pc, c_file, opened, consumed, i, in_function,
          func_start, func_name, brace_count, functions, all_functions,
          stdout, exit_status>>

\* a tree of generated files
InitTree == dir \in SeqsUpTo(TreeFiles, MaxFiles)

\* a tree of one file of arbitrary lines
InitLines == dir \in {<<FileWith(ls)>> : ls \in SeqsUpTo(ArbIds, MaxLines)}

Init ==
    /\ argv \in {<<"find_longest_functions.py">>,
                 <<"find_longest_functions.py", "src">>}
    /\ (InitTree \/ InitLines)
    /\ pc = "main"
    /\ c_file = 0
    /\ opened = <<>>
    /\ consumed = 0
    /\ i = 0
    /\ in_function = FALSE
    /\ func_start = 0
    /\ func_name = <<>>
    /\ brace_count = 0
    /\ functions = <<>>
    /\ all_functions = <<>>
    /\ stdout = <<>>
    /\ exit_status = -1

(***************************************************************************)
(* main, lines 57-62.                                                      *)
(***************************************************************************)
\* variant: the usage message is printed but main goes on
UsageNoExit ==
    /\ pc = "main"
    /\ Len(argv) < 2
    /\ stdout' = Append(stdout, UsageLine)
    /\ all_functions' = <<>>
    /\ pc' = "loop"
    /\ UNCHANGED <<argv, dir, c_file, opened, consumed, i, scanner,
                   exit_status>>

\* if len(sys.argv) < 2: print usage, sys.exit(1)
Usage ==
    /\ pc = "main"
    /\ Len(argv) < 2
    /\ stdout' = Append(stdout, UsageLine)
    /\ exit_status' = 1
    /\ pc' = "exit"
    /\ UNCHANGED <<argv, dir, c_file, opened, consumed, i, scanner,
                   all_functions>>

\* src_dir = Path(sys.argv[1]); all_functions = []
Start ==
    /\ pc = "main"
    /\ ~(Len(argv) < 2)
    /\ all_functions' = <<>>
    /\ pc' = "loop"
    /\ UNCHANGED <<argv, dir, c_file, opened, consumed, i, scanner, stdout,
                   exit_status>>

(***************************************************************************)
(* for c_file in src_dir.rglob('*.c'): find_functions(c_file)              *)
(***************************************************************************)
\* variant: no except clause, the exception ends main
OpenFailRaises ==
    /\ pc = "loop"
    /\ c_file < Len(dir)
    /\ ~dir[c_file + 1].readable
    /\ c_file' = c_file + 1
    /\ opened' = Append(opened, c_file + 1)
    /\ exit_status' = 1
    /\ pc' = "exit"
    /\ UNCHANGED <<argv, dir, consumed, i, scanner, all_functions, stdout>>

\* open()/readlines() raises: the bare except returns [], which main
\* extends all_functions with
OpenFail ==
    /\ pc = "loop"
    /\ c_file < Len(dir)
    /\ ~dir[c_file + 1].readable
    /\ c_file' = c_file + 1
    /\ opened' = Append(opened, c_file + 1)
    /\ all_functions' = all_functions \o <<>>
    /\ UNCHANGED <<argv, dir, pc, consumed, i, scanner, stdout, exit_status>>

\* variant: the scanner variables are not local to the call
OpenOkKeepsState ==
    /\ pc = "loop"
    /\ c_file < Len(dir)
    /\ dir[c_file + 1].readable
    /\ c_file' = c_file + 1
    /\ opened' = Append(opened, c_file + 1)
    /\ functions' = <<>>
    /\ consumed' = 0
    /\ pc' = "scan"
    /\ UNCHANGED <<argv, dir, i, in_function, func_start, func_name,
                   brace_count, all_functions, stdout, exit_status>>

\* the file is read; lines 17-21 initialise the scanner
OpenOk ==
    /\ pc = "loop"
    /\ c_file < Len(dir)
    /\ dir[c_file + 1].readable
    /\ c_file' = c_file + 1
    /\ opened' = Append(opened, c_file + 1)
    /\ functions' = <<>>
    /\ in_function' = FALSE
    /\ func_start' = 0
    /\ func_name' = <<>>
    /\ brace_count' = 0
    /\ consumed' = 0
    /\ pc' = "scan"
    /\ UNCHANGED <<argv, dir, i, all_functions, stdout, exit_status>>

lines == dir[c_file].lines

MoreLines == pc = "scan" /\ consumed < Len(lines)

\* stripped = line.strip() for the line the loop takes next
stripped == strip(Text[lines[consumed + 1]])

\* the value enumerate gives i for the line the loop takes next
NextI == EnumStart + consumed

\* variant: the skip test comes after the brace tracking, so inside a
\* function a skipped line is handled as a body line
SkipLineTracked ==
    /\ MoreLines
    /\ IsSkipped(stripped)
    /\ consumed' = consumed + 1
    /\ i' = NextI
    /\ IF in_function
       THEN /\ brace_count' = brace_count + NetBraces(stripped)
            /\ IF brace_count' = 0
               THEN /\ functions' = Append(functions,
                            <<func_name, func_start,
                              FuncLength(NextI, func_start), c_file>>)
                    /\ in_function' = FALSE
                    /\ func_name' = <<>>
               ELSE UNCHANGED <<functions, in_function, func_name>>
       ELSE UNCHANGED <<brace_count, functions, in_function, func_name>>
    /\ UNCHANGED <<argv, dir, pc, c_file, opened, func_start, all_functions,
                   stdout, exit_status>>

\* variant: inside a function the braces of a skipped line are counted
SkipLineCountsBraces ==
    /\ MoreLines
    /\ IsSkipped(stripped)
    /\ consumed' = consumed + 1
    /\ i' = NextI
    /\ brace_count' = IF in_function
                      THEN brace_count + NetBraces(stripped)
                      ELSE brace_count
    /\ UNCHANGED <<argv, dir, pc, c_file, opened, in_function, func_start,
                   func_name, functions, all_functions, stdout, exit_status>>

\* lines 30-31: continue
SkipLine ==
    /\ MoreLines
    /\ IsSkipped(stripped)
    /\ consumed' = consumed + 1
    /\ i' = NextI
    /\ UNCHANGED <<argv, dir, pc, c_file, opened, scanner, all_functions,
                   stdout, exit_status>>

\* variant: a signature line starts a function inside a function too
FuncStartAnywhere ==
    /\ MoreLines
    /\ ~IsSkipped(stripped)
    /\ IsFuncStart(stripped)
    /\ consumed' = consumed + 1
    /\ i' = NextI
    /\ func_name' = group3(stripped)
    /\ func_start' = NextI
    /\ in_function' = TRUE
    /\ brace_count' = NetBraces(stripped)
    /\ UNCHANGED <<argv, dir, pc, c_file, opened, functions, all_functions,
                   stdout, exit_status>>

\* variant: no continue, the signature line is also handled as a body line
FuncStartFallsThrough ==
    /\ MoreLines
    /\ ~IsSkipped(stripped)
    /\ ~in_function
    /\ IsFuncStart(stripped)
    /\ consumed' = consumed + 1
    /\ i' = NextI
    /\ func_start' = NextI
    /\ brace_count' = NetBraces(stripped) + NetBraces(stripped)
    /\ IF brace_count' = 0
       THEN /\ functions' = Append(functions,
                    <<group3(stripped), NextI, FuncLength(NextI, NextI),
                      c_file>>)
            /\ in_function' = FALSE
            /\ func_name' = <<>>
       ELSE /\ functions' = functions
            /\ in_function' = TRUE
            /\ func_name' = group3(stripped)
    /\ UNCHANGED <<argv, dir, pc, c_file, opened, all_functions, stdout,
                   exit_status>>

\* variant: func_start is not set
FuncStartKeepsStart ==
    /\ MoreLines
    /\ ~IsSkipped(stripped)
    /\ ~in_function
    /\ IsFuncStart(stripped)
    /\ consumed' = consumed + 1
    /\ i' = NextI
    /\ func_name' = group3(stripped)
    /\ in_function' = TRUE
    /\ brace_count' = NetBraces(stripped)
    /\ UNCHANGED <<argv, dir, pc, c_file, opened, func_start, functions,
                   all_functions, stdout, exit_status>>

\* lines 34-41: a signature line outside a function
FuncStart ==
    /\ MoreLines
    /\ ~IsSkipped(stripped)
    /\ ~in_function
    /\ IsFuncStart(stripped)
    /\ consumed' = consumed + 1
    /\ i' = NextI
    /\ func_name' = group3(stripped)
    /\ func_start' = NextI
    /\ in_function' = TRUE
    /\ brace_count' = NetBraces(stripped)
    /\ UNCHANGED <<argv, dir, pc, c_file, opened, functions, all_functions,
                   stdout, exit_status>>

\* lines 34-36 and 44: any other line outside a function
OutsideLine ==
    /\ MoreLines
    /\ ~IsSkipped(stripped)
    /\ ~in_function
    /\ ~IsFuncStart(stripped)
    /\ consumed' = consumed + 1
    /\ i' = NextI
    /\ UNCHANGED <<argv, dir, pc, c_file, opened, scanner, all_functions,
                   stdout, exit_status>>

\* variant: the function also ends when the count falls below zero
TrackBracesEndsBelowZero ==
    /\ MoreLines
    /\ ~IsSkipped(stripped)
    /\ in_function
    /\ consumed' = consumed + 1
    /\ i' = NextI
    /\ brace_count' = brace_count + NetBraces(stripped)
    /\ IF brace_count' <= 0
       THEN /\ functions' = Append(functions,
                    <<func_name, func_start, FuncLength(NextI, func_start),
                      c_file>>)
            /\ in_function' = FALSE
            /\ func_name' = <<>>
       ELSE UNCHANGED <<functions, in_function, func_name>>
    /\ UNCHANGED <<argv, dir, pc, c_file, opened, func_start, all_functions,
                   stdout, exit_status>>

\* lines 44-52: a line inside a function
TrackBraces ==
    /\ MoreLines
    /\ ~IsSkipped(stripped)
    /\ in_function
    /\ consumed' = consumed + 1
    /\ i' = NextI
    /\ brace_count' = brace_count + NetBraces(stripped)
    /\ IF brace_count' = 0
       THEN /\ functions' = Append(functions,
                    <<func_name, func_start, FuncLength(NextI, func_start),
                      c_file>>)
            /\ in_function' = FALSE
            /\ func_name' = <<>>
       ELSE UNCHANGED <<functions, in_function, func_name>>
    /\ UNCHANGED <<argv, dir, pc, c_file, opened, func_start, all_functions,
                   stdout, exit_status>>

\* variant: a function still open at the end of the file is emitted
ReturnedFlushed ==
    IF in_function
    THEN Append(functions,
                <<func_name, func_start, FuncLength(i, func_start), c_file>>)
    ELSE functions

\* line 54: return functions
Returned == functions

\* line 54 and line 67: return functions; all_functions.extend(functions)
Return ==
    /\ pc = "scan"
    /\ ~(consumed < Len(lines))
    /\ all_functions' = all_functions \o Returned
    /\ pc' = "loop"
    /\ UNCHANGED <<argv, dir, c_file, opened, consumed, i, scanner, stdout,
                   exit_status>>

(***************************************************************************)
(* main, lines 69-83.                                                      *)
(***************************************************************************)
\* the rglob iterator is exhausted; all_functions.sort(...)
Sort ==
    /\ pc = "loop"
    /\ ~(c_file < Len(dir))
    /\ all_functions' = sort_reverse(all_functions)
    /\ pc' = "report"
    /\ UNCHANGED <<argv, dir, c_file, opened, consumed, i, scanner, stdout,
                   exit_status>>

\* lines 73-75: the header and the top entries
Report ==
    /\ pc = "report"
    /\ stdout' = stdout \o <<HeaderLine>> \o EntryLines(all_functions)
    /\ pc' = "check"
    /\ UNCHANGED <<argv, dir, c_file, opened, consumed, i, scanner,
                   all_functions, exit_status>>

\* lines 78-81: some function is too long
ExitLong ==
    /\ pc = "check"
    /\ LongFuncs(all_functions) # <<>>
    /\ stdout' = Append(stdout, CountLine(Len(LongFuncs(all_functions))))
    /\ exit_status' = 1
    /\ pc' = "exit"
    /\ UNCHANGED <<argv, dir, c_file, opened, consumed, i, scanner,
                   all_functions>>

\* lines 82-83
ExitOk ==
    /\ pc = "check"
    /\ LongFuncs(all_functions) = <<>>
    /\ exit_status' = 0
    /\ pc' = "exit"
    /\ UNCHANGED <<argv, dir, c_file, opened, consumed, i, scanner,
                   all_functions, stdout>>

Next ==
    \/ Usage
    \/ Start
    \/ OpenFail
    \/ OpenOk
    \/ SkipLine
    \/ FuncStart
    \/ OutsideLine
    \/ TrackBraces
    \/ Return
    \/ Sort
    \/ Report
    \/ ExitLong
    \/ ExitOk

Spec == Init /\ [][Next]_vars

(***************************************************************************)
(* Properties.                                                             *)
(***************************************************************************)
\* main ran with a directory argument and has exited
Exited == pc = "exit" /\ Len(argv) >= 2

\* number of records of fs longer than n lines
NumLonger(fs, n) == Cardinality({k \in 1..Len(fs) : fs[k][3] > n})

\* C1: a run of main with a directory argument exits with status 1 exactly
\* when some collected record is longer than 150 lines, and with status 0
\* otherwise (a longest function of exactly 150 lines, or no function at
\* all, gives 0).
C1_ExitStatus ==
    Exited =>
        /\ exit_status \in {0, 1}
        /\ exit_status = 1 <=> NumLonger(all_functions, 150) > 0

\* a run whose longest function has exactly 150 lines has exited with 0
C1_Witness ==
    /\ Exited
    /\ exit_status = 0
    /\ \E k \in 1..Len(all_functions) : all_functions[k][3] = 150

\* the place the stable descending sort gives element k of fs: after the
\* longer records and after the earlier records of the same length
PlaceOf(fs, k) ==
    1 + Cardinality({j \in 1..Len(fs) : fs[j][3] > fs[k][3]})
      + Cardinality({j \in 1..k - 1 : fs[j][3] = fs[k][3]})

IsStableDescending(before, after) ==
    /\ Len(after) = Len(before)
    /\ \A k \in 1..Len(before) : after[PlaceOf(before, k)] = before[k]

\* the entry lines of the report, in the order printed
Entries == SelectSeq(stdout, LAMBDA ln : ln[1] = "entry")

\* entry e was discovered before entry f: an earlier file of the traversal,
\* or the same file and an earlier line
DiscoveredBefore(e, f) == e[4] < f[4] \/ (e[4] = f[4] /\ e[5] < f[5])

\* C2: the printed entries are in length-descending order and entries of
\* equal length are in discovery order; the sort step puts the records,
\* collected in discovery order, in that order and no other.
C2_StableOrder ==
    /\ [](\A j, k \in 1..Len(Entries) :
            j < k => \/ Entries[j][6] > Entries[k][6]
                     \/ /\ Entries[j][6] = Entries[k][6]
                        /\ DiscoveredBefore(Entries[j], Entries[k]))
    /\ [][pc = "loop" /\ pc' = "report"
            => IsStableDescending(all_functions, all_functions')]_vars

\* a report with two entries of the same length has been printed
C2_Witness ==
    /\ Exited
    /\ \E j, k \in 1..Len(Entries) : j < k /\ Entries[j][6] = Entries[k][6]

\* C3: main prints the header first and then exactly min(5, n) entries,
\* ranked from 1, which are the first min(5, n) records of the
\* length-descending list; no other record is listed.
C3_TopFive ==
    Exited =>
        LET n == Len(all_functions)
            m == IF n < 5 THEN n ELSE 5
        IN  /\ stdout[1] = HeaderLine
            /\ Len(Entries) = m
            /\ \A k \in 1..m :
                 stdout[1 + k] = <<"entry", k, all_functions[k][1],
                                   all_functions[k][4], all_functions[k][2],
                                   all_functions[k][3]>>
            /\ \A j, k \in 1..n :
                 j < k => all_functions[j][3] >= all_functions[k][3]

\* a report over more than five records has been printed
C3_Witness == Exited /\ Len(all_functions) > 5 /\ Len(Entries) = 5

\* C4: the count line is printed exactly when some record is longer than 150
\* lines, and it gives the number of such records among all collected
\* records, not among the listed ones.
C4_CountLine ==
    Exited =>
        LET cnt == NumLonger(all_functions, 150)
            found == SelectSeq(stdout, LAMBDA ln : ln[1] = "Found")
        IN  /\ Len(found) = (IF cnt > 0 THEN 1 ELSE 0)
            /\ cnt > 0 => stdout[Len(stdout)] = CountLine(cnt)

\* a count above the number of listed entries has been printed
C4_Witness ==
    /\ Exited
    /\ Len(Entries) = 5
    /\ stdout[Len(stdout)] = CountLine(6)

\* find_functions has taken every line of the current file and is about to
\* return
AtReturn == pc = "scan" /\ consumed = Len(lines)

StrippedAt(ls, k) == strip(Text[ls[k]])

\* line k of ls is not blank, comment or preprocessor
Counted(ls, k) == ~IsSkipped(StrippedAt(ls, k))

\* line k of ls matches the signature heuristic
FunctionLike(ls, k) == Counted(ls, k) /\ IsFuncStart(StrippedAt(ls, k))

\* the net brace count of the counted lines s..m of ls
DepthFrom(ls, s) ==
    LET d[m \in s..Len(ls)] ==
            (IF m = s THEN 0 ELSE d[m - 1])
            + (IF Counted(ls, m) THEN NetBraces(StrippedAt(ls, m)) ELSE 0)
    IN  d

\* the body of the function whose signature is line s closes on line e
ClosesAt(ls, s, e) ==
    /\ s < e
    /\ Counted(ls, e)
    /\ DepthFrom(ls, s)[e] = 0
    /\ \A m \in s + 1..e - 1 : Counted(ls, m) => DepthFrom(ls, s)[m] # 0

\* line s is the only function-like line of ls
OnlyFunctionAt(ls, s) ==
    /\ FunctionLike(ls, s)
    /\ \A k \in 1..Len(ls) : k # s => ~FunctionLike(ls, k)

\* C5: for a file with exactly one function-like line, at line s, whose body
\* closes on line e, find_functions returns exactly one record, with
\* start_line s and length e - s + 1 (blank, comment and preprocessor lines
\* of the body included).
C5_OneFunction ==
    AtReturn =>
        \A s \in 1..Len(lines) :
            OnlyFunctionAt(lines, s) =>
                \A e \in 1..Len(lines) :
                    ClosesAt(lines, s, e) =>
                        /\ Len(Returned) = 1
                        /\ Returned[1][2] = s
                        /\ Returned[1][3] = e - s + 1

\* a one-function file whose body holds a skipped line has been scanned
C5_Witness ==
    /\ AtReturn
    /\ Len(functions) = 1
    /\ \E s, e \in 1..Len(lines) :
        /\ OnlyFunctionAt(lines, s)
        /\ ClosesAt(lines, s, e)
        /\ \E m \in s + 1..e - 1 : ~Counted(lines, m)

\* C6: a function still open when the file ends gives no record and no
\* error: find_functions returns the records emitted before it, none of
\* which starts at the open function's signature line, and main goes on.
C6_Unterminated ==
    [][(pc = "scan" /\ pc' = "loop") =>
          /\ all_functions' = all_functions \o functions
          /\ exit_status' = -1
          /\ stdout' = stdout
          /\ in_function =>
                \A k \in Len(all_functions) + 1..Len(all_functions') :
                    all_functions'[k][2] + all_functions'[k][3] - 1
                        < func_start]_vars

\* a file has ended inside a function after an earlier function was emitted
C6_Witness == AtReturn /\ in_function /\ functions # <<>>

\* the records the generated file g yields when it is file p of the tree
RECURSIVE GenStart(_, _)
GenStart(lens, k) ==
    IF k = 1 THEN 1 ELSE GenStart(lens, k - 1) + lens[k - 1] + 1

GenRecords(lens, p) ==
    [k \in 1..Len(lens) |->
        <<IF k % 2 = 1 THEN <<"f">> ELSE <<"h">>, GenStart(lens, k),
          lens[k], p>>]

\* the lengths of the complete functions of a readable file of TreeFiles
LensOf(file) ==
    IF file = OpenEndedFile THEN <<2>>
    ELSE GenLens[CHOOSE g \in 1..Len(GenLens) : GenFiles[g] = file]

\* the records of the first p files of a tree of generated files, in
\* discovery order, an unreadable file contributing none
RECURSIVE GenDiscovered(_)
GenDiscovered(p) ==
    IF p = 0 THEN <<>>
    ELSE GenDiscovered(p - 1)
         \o (IF dir[p].readable
             THEN GenRecords(LensOf(dir[p]), p)
             ELSE <<>>)

\* C7: an unreadable file gives an empty result and no exception: the step
\* that meets it changes neither the records nor the output and main stays
\* in its loop; every file is attempted exactly once, in traversal order; no
\* record names an unreadable file, and the final list is the sorted list of
\* the readable files' records.
C7_Unreadable ==
    /\ [][(pc = "loop" /\ c_file' = c_file + 1 /\ ~dir[c_file'].readable) =>
             /\ all_functions' = all_functions
             /\ stdout' = stdout
             /\ exit_status' = -1
             /\ pc' = "loop"]_vars
    /\ [](Exited => opened = [p \in 1..Len(dir) |-> p])
    /\ [](\A k \in 1..Len(all_functions) :
            dir[all_functions[k][4]].readable)
    /\ []((Exited /\ \A p \in 1..Len(dir) : dir[p] \in TreeFiles) =>
            IsStableDescending(GenDiscovered(Len(dir)), all_functions))

\* a run has finished in which a file after an unreadable one gave records
C7_Witness ==
    /\ Exited
    /\ \E p, q \in 1..Len(dir) :
        /\ p < q
        /\ ~dir[p].readable
        /\ \E k \in 1..Len(all_functions) : all_functions[k][4] = q

\* C8: without a directory argument main prints the usage message and exits
\* with status 1; find_functions is never called and no header is printed.
C8_UsageOnly ==
    Len(argv) < 2 =>
        /\ pc \in {"main", "exit"}
        /\ opened = <<>>
        /\ \A k \in 1..Len(stdout) : stdout[k] # HeaderLine
        /\ pc = "exit" => stdout = <<UsageLine>> /\ exit_status = 1

\* main has exited for lack of an argument while the tree holds files
C8_Witness == pc = "exit" /\ Len(argv) < 2 /\ dir # <<>>

\* C9: every record find_functions emits has length >= 1 and
\* start_line >= 1.
C9_PositiveFields ==
    \A k \in 1..Len(functions) : functions[k][3] >= 1 /\ functions[k][2] >= 1

\* a function starting on the first line of its file has been emitted
C9_Witness == \E k \in 1..Len(functions) : functions[k][2] = 1

\* C10: no two records of one find_functions call have the same
\* (source_path, start_line).
C10_DistinctStarts ==
    \A j, k \in 1..Len(functions) :
        j # k => <<functions[j][4], functions[j][2]>>
                    # <<functions[k][4], functions[k][2]>>

\* one call has emitted two records
C10_Witness == pc = "scan" /\ Len(functions) >= 2

\* the stripped text of the line the loop took last
LastStripped == StrippedAt(lines, consumed)

\* C11: a line that is blank or begins with // or # after trimming leaves
\* in_function, func_start, func_name, brace_count and the emitted records
\* unchanged, outside and inside a function alike.
C11_SkippedLineFrame ==
    [][(MoreLines /\ (\/ Len(stripped) = 0
                      \/ Len(stripped) >= 1 /\ stripped[1] = "#"
                      \/ /\ Len(stripped) >= 2
                         /\ stripped[1] = "/"
                         /\ stripped[2] = "/"))
          => /\ consumed' = consumed + 1
             /\ in_function' = in_function
             /\ func_start' = func_start
             /\ func_name' = func_name
             /\ brace_count' = brace_count
             /\ functions' = functions]_vars

\* inside a function a skipped line holding a brace has just been passed
C11_Witness ==
    /\ pc = "scan"
    /\ consumed > 0
    /\ in_function
    /\ IsSkipped(LastStripped)
    /\ NetBraces(LastStripped) # 0

\* the identifier in front of the first "(" of s: the longest run of word
\* characters that ends before it, blanks between them left out
IdentBeforeParen(s) ==
    LET paren == CHOOSE p \in 1..Len(s) :
                    s[p] = "(" /\ \A k \in 1..p - 1 : s[k] # "("
        last == CHOOSE q \in 1..paren - 1 :
                    /\ s[q] \notin Whitespace
                    /\ \A k \in q + 1..paren - 1 : s[k] \in Whitespace
        first == CHOOSE r \in 1..last :
                    /\ \A k \in r..last : s[k] \in WordChars
                    /\ r = 1 \/ s[r - 1] \notin WordChars
    IN  SubSeq(s, first, last)

\* C12: a file without function-like lines gives no record, whatever braces
\* it holds; every record starts on a non-skipped line that matches the
\* signature heuristic and was met outside a function, and is named by the
\* identifier of that line.
C12_RecordsFromSignatures ==
    /\ []((AtReturn /\ \A k \in 1..Len(lines) : ~FunctionLike(lines, k))
            => Returned = <<>>)
    /\ [](pc = "scan" =>
            \A k \in 1..Len(functions) :
                /\ functions[k][2] \in 1..Len(lines)
                /\ FunctionLike(lines, functions[k][2])
                /\ functions[k][1]
                     = IdentBeforeParen(StrippedAt(lines, functions[k][2])))
    /\ [][(pc = "scan" /\ func_start' # func_start) =>
             /\ ~in_function
             /\ in_function'
             /\ func_start' = consumed + 1
             /\ FunctionLike(lines, consumed + 1)]_vars
    /\ [][(pc = "scan" /\ functions' # functions) =>
             /\ Len(functions') = Len(functions) + 1
             /\ SubSeq(functions', 1, Len(functions)) = functions
             /\ functions'[Len(functions')][2] = func_start
             /\ functions'[Len(functions')][1] = func_name]_vars

\* a record named by a static pointer function further down the file exists
C12_Witness ==
    /\ pc = "scan"
    /\ \E k \in 1..Len(functions) :
        functions[k][1] = <<"h">> /\ functions[k][2] > 1

\* C13: sorting again a list the sort step has put in length-descending
\* order, equal lengths included, gives the same list in the same order.
C13_SortIdempotent ==
    (Len(argv) >= 2 /\ pc \in {"report", "check", "exit"}) =>
        sort_reverse(all_functions) = all_functions

\* the sort step has produced a list holding two records of one length
C13_Witness ==
    /\ pc = "report"
    /\ \E j, k \in 1..Len(all_functions) :
        j < k /\ all_functions[j][3] = all_functions[k][3]

\* C14: inside a function every non-skipped line adds its '{' count minus
\* its '}' count to brace_count; if the result is exactly 0 the record
\* (func_name, func_start, i - func_start + 1, path) is emitted, in_function
\* becomes false and func_name is cleared; if it is not 0, above or below,
\* the function stays open and nothing is emitted.
C14_BraceTracking ==
    [][(MoreLines /\ Counted(lines, consumed + 1) /\ in_function) =>
          /\ brace_count' = brace_count + count(stripped, "{")
                                        - count(stripped, "}")
          /\ func_start' = func_start
          /\ IF brace_count' = 0
             THEN /\ functions' = Append(functions,
                        <<func_name, func_start, i' - func_start + 1,
                          c_file>>)
                  /\ i' = consumed + 1
                  /\ ~in_function'
                  /\ func_name' = <<>>
             ELSE /\ functions' = functions
                  /\ in_function'
                  /\ func_name' = func_name]_vars

\* a counted line has left the depth below zero and the function open
C14_Witness ==
    /\ pc = "scan"
    /\ in_function
    /\ brace_count < 0
    /\ consumed > func_start
    /\ Counted(lines, consumed)

\* C15: a non-skipped line that matches the signature heuristic outside a
\* function sets func_name, func_start = i, in_function = true and
\* brace_count = the line's net brace count, and nothing else happens on
\* that line: no record is emitted, and with a net count of 0 the function
\* is left open at depth 0.
C15_SignatureLine ==
    [][(MoreLines /\ FunctionLike(lines, consumed + 1) /\ ~in_function) =>
          /\ i' = consumed + 1
          /\ func_start' = i'
          /\ func_name' = IdentBeforeParen(stripped)
          /\ in_function'
          /\ brace_count' = count(stripped, "{") - count(stripped, "}")
          /\ functions' = functions]_vars

\* a signature line without a brace has just opened a function at depth 0
C15_Witness ==
    /\ pc = "scan"
    /\ in_function
    /\ brace_count = 0
    /\ consumed = func_start

\* C16: every find_functions call starts from a fresh scanner state, and
\* the records it returns for a file are those of that file alone, whatever
\* was scanned before it, a file that ended inside a function included.
C16_FreshState ==
    /\ [][(pc = "loop" /\ pc' = "scan") =>
             /\ ~in_function'
             /\ brace_count' = 0
             /\ func_start' = 0
             /\ func_name' = <<>>
             /\ functions' = <<>>
             /\ consumed' = 0]_vars
    /\ []((AtReturn /\ dir[c_file] \in TreeFiles) =>
            Returned = GenRecords(LensOf(dir[c_file]), c_file))

\* a file scanned right after one that ended inside a function gave records
C16_Witness ==
    /\ AtReturn
    /\ c_file >= 2
    /\ dir[c_file - 1] = OpenEndedFile
    /\ functions # <<>>

\* s begins with the word typedef
BeginsWithTypedef(s) ==
    /\ Len(s) >= 7
    /\ SubSeq(s, 1, 7) = <<"t", "y", "p", "e", "d", "e", "f">>

\* C17: a non-skipped line that begins with typedef never starts a function,
\* even if it matches the signature pattern: met outside a function it
\* leaves the scanner state unchanged, and no record starts on such a line.
C17_TypedefRejected ==
    /\ [][(MoreLines /\ ~in_function /\ BeginsWithTypedef(stripped)) =>
             /\ ~in_function'
             /\ func_start' = func_start
             /\ func_name' = func_name
             /\ brace_count' = brace_count
             /\ functions' = functions]_vars
    /\ [](pc = "scan" =>
            \A k \in 1..Len(functions) :
                ~BeginsWithTypedef(StrippedAt(lines, functions[k][2])))

\* a typedef line that matches the pattern was met outside a function and
\* the scanner is still outside
C17_Witness ==
    /\ pc = "scan"
    /\ consumed = 1
    /\ BeginsWithTypedef(LastStripped)
    /\ func_pattern(LastStripped) # {}
    /\ ~in_function
    /\ func_start = 0

\* the last line of record r
EndLine(r) == r[2] + r[3] - 1

\* C18: the records of one call are in strictly increasing start_line order
\* and cover disjoint line ranges inside the file: each record ends before
\* the next one starts.
C18_DisjointRanges ==
    pc = "scan" =>
        /\ \A k \in 1..Len(functions) :
             1 <= functions[k][2] /\ EndLine(functions[k]) <= Len(lines)
        /\ \A k \in 1..Len(functions) - 1 :
             /\ functions[k][2] < functions[k + 1][2]
             /\ EndLine(functions[k]) < functions[k + 1][2]

\* two functions on adjacent lines have both been emitted
C18_Witness ==
    /\ AtReturn
    /\ Len(functions) >= 2
    /\ functions[2][2] = EndLine(functions[1]) + 1

\* the loop is about to take a line that matches the signature heuristic
\* while a function is open
SignatureInsideFunction ==
    MoreLines /\ in_function /\ FunctionLike(lines, consumed + 1)

\* C19 as stated: inside a function a line that matches the signature
\* heuristic never changes func_name or func_start.
C19_NameNeverChanges ==
    [][SignatureInsideFunction =>
          func_name' = func_name /\ func_start' = func_start]_vars

\* C19: inside a function a line that matches the signature heuristic is
\* handled as a body line only: its braces are counted, func_start stays,
\* and func_name stays unless the line brings the depth to exactly 0, which
\* ends the open function and clears func_name; a function still open at
\* the end of the file has no record after it.
C19_OneOpenFunction ==
    /\ [][SignatureInsideFunction =>
             /\ func_start' = func_start
             /\ brace_count' = brace_count + count(stripped, "{")
                                           - count(stripped, "}")
             /\ IF brace_count' = 0
                THEN /\ ~in_function'
                     /\ func_name' = <<>>
                     /\ Len(functions') = Len(functions) + 1
                     /\ functions'[Len(functions')][1] = func_name
                     /\ functions'[Len(functions')][2] = func_start
                ELSE /\ in_function'
                     /\ func_name' = func_name
                     /\ functions' = functions]_vars
    /\ []((AtReturn /\ in_function) =>
            \A k \in 1..Len(functions) : functions[k][2] < func_start)

\* a signature line of another name was passed inside a function, which is
\* still open under its own name
C19_Witness ==
    /\ pc = "scan"
    /\ in_function
    /\ consumed > func_start
    /\ FunctionLike(lines, consumed)
    /\ func_name # IdentBeforeParen(LastStripped)

\* C20: every record ends on a non-skipped line after its signature line,
\* so its length is at least 2, and that line is the one that closes the
\* body: skipped lines after it are not part of the record.
C20_EndsOnCountedLine ==
    /\ pc = "scan" =>
         \A k \in 1..Len(functions) :
            /\ functions[k][3] >= 2
            /\ EndLine(functions[k]) \in 1..consumed
            /\ Counted(lines, EndLine(functions[k]))
    /\ AtReturn =>
         \A k \in 1..Len(functions) :
            ClosesAt(lines, functions[k][2], EndLine(functions[k]))

\* a record is followed in its file by a skipped line it does not count
C20_Witness ==
    /\ AtReturn
    /\ \E k \in 1..Len(functions) :
        /\ EndLine(functions[k]) < Len(lines)
        /\ ~Counted(lines, EndLine(functions[k]) + 1)

=============================================================================
